---- MODULE Spec2Model ----
(***************************************************************************)
(* Model of src/src/transcribe.rs of distill-cli:                          *)
(*   - convert_transcribe_json, the transcript reconstructor, as a loop    *)
(*     that is stepped one item of results.items at a time (SpecConvert);  *)
(*   - transcribe_audio, the job orchestrator, stepped one await at a time *)
(*     against a job service that answers nondeterministically (Spec).     *)
(* Strings whose contents matter (token contents, speaker labels, the      *)
(* transcript) are sequences of one-character strings.  An Option<T> is a  *)
(* sequence of length at most one: <<>> is None and <<x>> is Some(x).      *)
(***************************************************************************)
EXTENDS Integers, Sequences, FiniteSets, TLC

\* ------------------------------------------------------------------ bounds
MaxItems == 3
MaxReads == 4

\* ----------------------------------------------------------------- options
None == <<>>
Some(x) == <<x>>
IsSome(o) == o # <<>>
Unwrap(o) == o[1]

\* ----------------------------------------------------------------- strings
\* a string literal whose characters do not matter, kept as one fragment
Str(s) == <<s>>

Whitespace == {" ", "\n", "\t"}

RECURSIVE TrimStart(_)
TrimStart(s) ==
  IF s = <<>> THEN <<>>
  ELSE IF Head(s) \in Whitespace THEN TrimStart(Tail(s))
  ELSE s

RECURSIVE TrimEnd(_)
TrimEnd(s) ==
  IF s = <<>> THEN <<>>
  ELSE IF s[Len(s)] \in Whitespace THEN TrimEnd(SubSeq(s, 1, Len(s) - 1))
  ELSE s

Trim(s) == TrimEnd(TrimStart(s))

\* format!("{}: {}\n", speaker, text.trim())
FormatLineMutant(speaker, text) == speaker \o <<":">> \o Trim(text) \o <<"\n">>
FormatLine(speaker, text) == speaker \o <<":", " ">> \o Trim(text) \o <<"\n">>

\* -------------------------------------------------- the payload (inputs)
Labels == { <<"A">>, <<"B">> }
WordContents == { <<>>, <<"a">>, <<" ">> }
PunctContents == { <<>>, <<".">> }

PronunciationItems ==
  [type : {Some("pronunciation")},
   content : {None} \cup {Some(c) : c \in WordContents},
   speaker_label : {None} \cup {Some(l) : l \in Labels}]
PunctuationItems ==
  [type : {Some("punctuation")},
   content : {None} \cup {Some(c) : c \in PunctContents},
   speaker_label : {None}]
OtherItems ==
  [type : {Some("speaker-change"), None}, content : {None}, speaker_label : {None}]
Items == PronunciationItems \cup PunctuationItems \cup OtherItems

ItemSeqs == UNION { [1..n -> Items] : n \in 0..MaxItems }

\* json_string: text that is not JSON, JSON without an array at
\* results.items, or JSON with an array of items there.
Payloads ==
  {[valid_json |-> FALSE, items |-> None], [valid_json |-> TRUE, items |-> None]}
  \cup {[valid_json |-> TRUE, items |-> Some(s)] : s \in ItemSeqs}

\* ------------------------------------------------ convert_transcribe_json
\* Result<String, Error>, and the panic of an unwrap() on None.
Ok(v) == [kind |-> "Ok", val |-> v]
Err(m) == [kind |-> "Err", val |-> m]
Panic == [kind |-> "Panic", val |-> Str("called Option::unwrap() on a None value")]
Pending == [kind |-> "Pending", val |-> <<>>]

\* let mut final_transcript / current_speaker / current_text
LoopInit ==
  [final_transcript |-> <<>>, current_speaker |-> None, current_text |-> <<>>,
   emitted |-> <<>>, ret |-> Pending]

\* final_transcript.push_str(&format!("{}: {}\n", speaker, current_text.trim()))
\* guarded by !current_text.is_empty(); emitted records the pushed lines.
EmitLineMutant(st, speaker) ==
  [st EXCEPT !.final_transcript = @ \o FormatLine(speaker, st.current_text),
             !.emitted = Append(@, [speaker |-> speaker, text |-> Trim(st.current_text)])]
EmitLine(st, speaker) ==
  IF st.current_text # <<>>
  THEN [st EXCEPT !.final_transcript = @ \o FormatLine(speaker, st.current_text),
                  !.emitted = Append(@, [speaker |-> speaker, text |-> Trim(st.current_text)])]
  ELSE st

\* the "pronunciation" arm once content and speaker_label are read
PronunciationArmAppendMutant(st, content, speaker_label) ==
  IF IsSome(st.current_speaker)
  THEN IF Unwrap(st.current_speaker) # speaker_label
       THEN [EmitLine(st, Unwrap(st.current_speaker)) EXCEPT
               !.current_speaker = Some(speaker_label),
               !.current_text = content]
       ELSE [st EXCEPT !.current_text = @ \o <<" ">> \o content]
  ELSE [st EXCEPT !.current_speaker = Some(speaker_label),
                  !.current_text = @ \o content]
PronunciationArmMutant(st, content, speaker_label) ==
  IF IsSome(st.current_speaker)
  THEN IF Unwrap(st.current_speaker) # speaker_label
       THEN [EmitLine(st, Unwrap(st.current_speaker)) EXCEPT
               !.current_speaker = Some(speaker_label),
               !.current_text = <<>>]
       ELSE [st EXCEPT !.current_text = @ \o <<" ">> \o content]
  ELSE [st EXCEPT !.current_speaker = Some(speaker_label),
                  !.current_text = content]
PronunciationArmSplitMutant(st, content, speaker_label) ==
  IF IsSome(st.current_speaker)
  THEN [EmitLine(st, Unwrap(st.current_speaker)) EXCEPT
          !.current_speaker = Some(speaker_label),
          !.current_text = content]
  ELSE [st EXCEPT !.current_speaker = Some(speaker_label),
                  !.current_text = content]
PronunciationArm(st, content, speaker_label) ==
  IF IsSome(st.current_speaker)
  THEN IF Unwrap(st.current_speaker) # speaker_label
       THEN [EmitLine(st, Unwrap(st.current_speaker)) EXCEPT
               !.current_speaker = Some(speaker_label),
               !.current_text = content]
       ELSE [st EXCEPT !.current_text = @ \o <<" ">> \o content]
  ELSE [st EXCEPT !.current_speaker = Some(speaker_label),
                  !.current_text = content]

\* the "punctuation" arm once content is read
PunctuationArm(st, content) == [st EXCEPT !.current_text = @ \o content]

\* one iteration of `for item in ...`: match item["type"].as_str().unwrap()
StepItemStrictMutant(st, item) ==
  IF ~IsSome(item.type) THEN [st EXCEPT !.ret = Panic]
  ELSE IF Unwrap(item.type) = "pronunciation" THEN
    IF ~IsSome(item.content)
      THEN [st EXCEPT !.ret = Err(Str("Missing pronunciation content data"))]
    ELSE IF ~IsSome(item.speaker_label)
      THEN [st EXCEPT !.ret = Err(Str("Missing speaker_label data"))]
    ELSE PronunciationArm(st, Unwrap(item.content), Unwrap(item.speaker_label))
  ELSE IF ~IsSome(item.content)
      THEN [st EXCEPT !.ret = Err(Str("Missing punctuation content data"))]
  ELSE PunctuationArm(st, Unwrap(item.content))
StepItemMutant(st, item) ==
  IF ~IsSome(item.type) THEN [st EXCEPT !.ret = Panic]
  ELSE IF Unwrap(item.type) = "pronunciation" THEN
    IF ~IsSome(item.content) \/ ~IsSome(item.speaker_label) THEN st
    ELSE PronunciationArm(st, Unwrap(item.content), Unwrap(item.speaker_label))
  ELSE IF Unwrap(item.type) = "punctuation" THEN
    IF ~IsSome(item.content) THEN st
    ELSE PunctuationArm(st, Unwrap(item.content))
  ELSE st
StepItem(st, item) ==
  IF ~IsSome(item.type) THEN [st EXCEPT !.ret = Panic]
  ELSE IF Unwrap(item.type) = "pronunciation" THEN
    IF ~IsSome(item.content)
      THEN [st EXCEPT !.ret = Err(Str("Missing pronunciation content data"))]
    ELSE IF ~IsSome(item.speaker_label)
      THEN [st EXCEPT !.ret = Err(Str("Missing speaker_label data"))]
    ELSE PronunciationArm(st, Unwrap(item.content), Unwrap(item.speaker_label))
  ELSE IF Unwrap(item.type) = "punctuation" THEN
    IF ~IsSome(item.content)
      THEN [st EXCEPT !.ret = Err(Str("Missing punctuation content data"))]
    ELSE PunctuationArm(st, Unwrap(item.content))
  ELSE st

\* after the loop: if let Some(speaker_label) = current_speaker { ... }
FinalFlushEmptyMutant(st) ==
  LET flushed == IF IsSome(st.current_speaker)
                 THEN EmitLine(st, Unwrap(st.current_speaker)) ELSE st
  IN [flushed EXCEPT !.ret = IF flushed.final_transcript = <<>>
                              THEN Err(Str("Transcript is empty"))
                              ELSE Ok(flushed.final_transcript)]
FinalFlushSentinelMutant(st) ==
  LET flushed == EmitLine(st, IF IsSome(st.current_speaker)
                              THEN Unwrap(st.current_speaker) ELSE <<"?">>)
  IN [flushed EXCEPT !.ret = Ok(flushed.final_transcript)]
FinalFlush(st) ==
  LET flushed == IF IsSome(st.current_speaker)
                 THEN EmitLine(st, Unwrap(st.current_speaker)) ELSE st
  IN [flushed EXCEPT !.ret = Ok(flushed.final_transcript)]

\* serde_json::from_str(json_string).with_context(..)?
ParseResult(p) == IF p.valid_json THEN Pending ELSE Err(Str("Failed to parse JSON"))

\* v["results"]["items"].as_array().unwrap()
ItemsArray(p) == p.items

\* the for loop from item i on, then the final flush and the return
RECURSIVE RunItems(_, _, _)
RunItems(st, items, i) ==
  IF i > Len(items) THEN FinalFlush(st)
  ELSE LET nx == StepItem(st, items[i])
       IN IF nx.ret.kind = "Pending" THEN RunItems(nx, items, i + 1) ELSE nx

\* the whole function: what one call returns for the payload p
convert_transcribe_json(p) ==
  IF ParseResult(p).kind # "Pending" THEN ParseResult(p)
  ELSE IF ~IsSome(ItemsArray(p)) THEN Panic
  ELSE RunItems(LoopInit, Unwrap(ItemsArray(p)), 1).ret

\* --------------------------------------------------------- transcribe_audio
\* the arms of `match kind.mime_type()`
MimeFormats ==
  [m \in {"audio/amr", "audio/flac", "audio/m4a", "audio/mpeg", "audio/mp4",
          "video/mp4", "audio/ogg", "audio/opus", "audio/wav", "audio/webm"} |->
     CASE m = "audio/amr" -> "Amr"
       [] m = "audio/flac" -> "Flac"
       [] m = "audio/m4a" -> "M4A"
       [] m = "audio/mpeg" -> "Mp3"
       [] m \in {"audio/mp4", "video/mp4"} -> "Mp4"
       [] m \in {"audio/ogg", "audio/opus"} -> "Ogg"
       [] m = "audio/wav" -> "Wav"
       [] m = "audio/webm" -> "Webm"]

\* file_path.extension().and_then(|ext| ext.to_str()) matched against Some("mp3")
ExtensionFallback(ext, msg) == IF ext = Some("mp3") THEN Ok(Str("Mp3")) ELSE Err(msg)

\* let media_format = match get_from_path(file_path) { ... }
\* sniff is Ok(Some(mime)), Ok(None) or Err of get_from_path
MediaFormatOf(sniff, ext) ==
  IF sniff.kind = "Err" THEN Err(Str("Error determining media format"))
  ELSE IF ~IsSome(sniff.val)
    THEN ExtensionFallback(ext, Str("Unable to determine media format from file extension"))
  ELSE IF Unwrap(sniff.val) \in DOMAIN MimeFormats
    THEN Ok(Str(MimeFormats[Unwrap(sniff.val)]))
  ELSE ExtensionFallback(ext, Str("Unsupported media format"))

\* the arms of `match language_code`
SupportedLanguageCodes ==
  {
     "ab-GE", "af-ZA", "ar-AE", "ar-SA", "hy-AM", "ast-ES", "az-AZ", "ba-RU", "eu-ES",
     "be-BY", "bn-IN", "bs-BA", "bg-BG", "ca-ES", "ckb-IR", "ckb-IQ", "zh-CN", "zh-TW",
     "hr-HR", "cs-CZ", "da-DK", "nl-NL", "en-AU", "en-GB", "en-IN", "en-IE", "en-NZ",
     "en-AB", "en-ZA", "en-US", "en-WL", "et-ET", "fa-IR", "fi-FI", "fr-FR", "fr-CA",
     "gl-ES", "ka-GE", "de-DE", "de-CH", "el-GR", "gu-IN", "ha-NG", "he-IL", "hi-IN",
     "hu-HU", "is-IS", "id-ID", "it-IT", "ja-JP", "kab-DZ", "kn-IN", "kk-KZ", "rw-RW",
     "ko-KR", "ky-KG", "lv-LV", "lt-LT", "lg-IN", "mk-MK", "ms-MY", "ml-IN", "mt-MT",
     "mr-IN", "mhr-RU", "mn-MN", "no-NO", "or-IN", "ps-AF", "pl-PL", "pt-PT", "pt-BR",
     "pa-IN", "ro-RO", "ru-RU", "sr-RS", "si-LK", "sk-SK", "sl-SI", "so-SO", "es-ES",
     "es-US", "su-ID", "sw-KE", "sw-BI", "sw-RW", "sw-TZ", "sw-UG", "sv-SE", "tl-PH",
     "ta-IN", "tt-RU", "te-IN", "th-TH", "tr-TR", "uk-UA", "ug-CN", "uz-UZ", "vi-VN",
     "cy-WL", "wo-SN", "zu-ZA" }

LanguageCodeOfMutant(language_code) == Ok(Str(language_code))
LanguageCodeOf(language_code) ==
  IF language_code \in SupportedLanguageCodes THEN Ok(Str(language_code))
  ELSE Err(Str("Unsupported language code"))

\* Duration::from_secs(5)
InitialPollInterval == 5

\* poll_interval *= 2
NextIntervalMutant(d) == d + InitialPollInterval
NextInterval(d) == d * 2

\* job_details.transcription_job.as_ref().and_then(|j| j.transcription_job_status.as_ref())
StatusOf(details) ==
  IF IsSome(details.transcription_job)
  THEN Unwrap(details.transcription_job).transcription_job_status
  ELSE None

\* the arms of `match status` inside the while-let loop
KeepsPolling(status) == IsSome(status) /\ Unwrap(status) = "IN_PROGRESS"

\* the three literal results of the final match
MissingUriMessage == Str("Transcript file URI is missing.")
JobFailedMessage == Str("Transcription job failed.")
UnexpectedStatusMessage ==
  Str("Job ended with an unexpected status or status could not be determined.")

\* job_details.transcription_job.and_then(|j| j.transcript).and_then(|t| t.transcript_file_uri)
TranscriptUriOf(details) ==
  IF IsSome(details.transcription_job)
  THEN Unwrap(details.transcription_job).transcript_file_uri
  ELSE None

\* job_details.transcription_job.and_then(|j| j.failure_reason)
FailureReasonOf(details) ==
  IF IsSome(details.transcription_job)
  THEN Unwrap(details.transcription_job).failure_reason
  ELSE None

\* the Failed arm: what is printed
FailedPrint(details) ==
  IF IsSome(FailureReasonOf(details))
  THEN Str("Transcription job failed: ") \o Unwrap(FailureReasonOf(details))
  ELSE Str("Transcription job failed for an unknown reason.")

\* the final `match` on the status: the value returned without a fetch,
\* or Pending when the Completed arm goes on to fetch the transcript
ClassifyFetchMutant(details) ==
  IF StatusOf(details) = Some("COMPLETED") THEN Pending
  ELSE IF StatusOf(details) = Some("FAILED") THEN Ok(JobFailedMessage)
  ELSE Ok(UnexpectedStatusMessage)
ClassifyMutant(details) ==
  IF StatusOf(details) = Some("FAILED") THEN Ok(JobFailedMessage)
  ELSE IF StatusOf(details) = Some("COMPLETED") /\ IsSome(TranscriptUriOf(details)) THEN Pending
  ELSE Ok(MissingUriMessage)
Classify(details) ==
  IF StatusOf(details) = Some("COMPLETED")
  THEN IF IsSome(TranscriptUriOf(details)) THEN Pending ELSE Ok(MissingUriMessage)
  ELSE IF StatusOf(details) = Some("FAILED") THEN Ok(JobFailedMessage)
  ELSE Ok(UnexpectedStatusMessage)

\* what the final match prints
ClassifyPrint(details) ==
  IF StatusOf(details) = Some("COMPLETED")
  THEN IF IsSome(TranscriptUriOf(details)) THEN <<>> ELSE <<MissingUriMessage>>
  ELSE IF StatusOf(details) = Some("FAILED") THEN <<FailedPrint(details)>>
  ELSE <<>>

\* ------------------------------------------- the job service (test double)
Statuses == {"QUEUED", "IN_PROGRESS", "COMPLETED", "FAILED", "UNKNOWN_VALUE"}
FailureReasons == { Str("insufficient audio quality"), Str("unsupported sample rate") }
TranscriptUris == { Str("https://s3/transcript.json") }

JobRecords ==
  [transcription_job_status : {None} \cup {Some(s) : s \in Statuses},
   failure_reason : {None} \cup {Some(r) : r \in FailureReasons},
   transcript_file_uri : {None} \cup {Some(u) : u \in TranscriptUris}]

\* GetTranscriptionJobOutput
JobOutputs == [transcription_job : {None} \cup {Some(j) : j \in JobRecords}]
NoJobOutput == [transcription_job |-> None]

\* one entry of the log of calls that leave transcribe_audio
Call(op, secs, ok, out) == [op |-> op, secs |-> secs, ok |-> ok, out |-> out]

\* the bodies the result fetcher may deliver
WordA == [type |-> Some("pronunciation"), content |-> Some(<<"a">>), speaker_label |-> Some(<<"A">>)]
WordB == [type |-> Some("pronunciation"), content |-> Some(<<"a">>), speaker_label |-> Some(<<"B">>)]
WordNoSpeaker == [type |-> Some("pronunciation"), content |-> Some(<<"a">>), speaker_label |-> None]
Period == [type |-> Some("punctuation"), content |-> Some(<<".">>), speaker_label |-> None]
Bodies ==
  {[valid_json |-> FALSE, items |-> None],
   [valid_json |-> TRUE, items |-> None],
   [valid_json |-> TRUE, items |-> Some(<<>>)],
   [valid_json |-> TRUE, items |-> Some(<<WordA, Period, WordB>>)],
   [valid_json |-> TRUE, items |-> Some(<<WordA, WordNoSpeaker>>)]}
NoBody == [valid_json |-> FALSE, items |-> None]

\* the inputs of one invocation
LanguageInputs == {"en-US", "xx-YY", "en-us"}
SniffInputs ==
  {Err(None), Ok(None), Ok(Some("audio/mpeg")), Ok(Some("application/pdf"))}
ExtensionInputs == {None, Some("mp3"), Some("txt")}
VARIABLES json_string, cpc, idx, conv,
          language_code, sniff, extension, pc, calls, poll_interval, job_details,
          stdout, result,
          run, first_ret

cvars == <<json_string, cpc, idx, conv>>
ivars == <<language_code, sniff, extension>>
ovars == <<language_code, sniff, extension, pc, calls, poll_interval, job_details,
           stdout, result>>
\* run counts the calls of convert_transcribe_json on the same json_string,
\* first_ret keeps what the first of them returned
rvars == <<run, first_ret>>
vars == <<json_string, cpc, idx, conv, language_code, sniff, extension, pc, calls,
          poll_interval, job_details, stdout, result, run, first_ret>>

\* ---- convert_transcribe_json, stepped
ConvParseMutant ==
  /\ cpc = "parse"
  /\ conv' = [conv EXCEPT !.ret = ParseResult(json_string)]
  /\ cpc' = IF conv'.ret.kind = "Pending" THEN "iter" ELSE "done"
  /\ UNCHANGED <<json_string, idx>>
  /\ UNCHANGED ovars
  /\ UNCHANGED rvars
ConvParse ==
  /\ cpc = "parse"
  /\ conv' = [LoopInit EXCEPT !.ret = ParseResult(json_string)]
  /\ cpc' = IF conv'.ret.kind = "Pending" THEN "iter" ELSE "done"
  /\ UNCHANGED <<json_string, idx>>
  /\ UNCHANGED ovars
  /\ UNCHANGED rvars

ConvIterBegin ==
  /\ cpc = "iter"
  /\ IF IsSome(ItemsArray(json_string))
     THEN cpc' = "loop" /\ UNCHANGED conv
     ELSE cpc' = "done" /\ conv' = [conv EXCEPT !.ret = Panic]
  /\ UNCHANGED <<json_string, idx>>
  /\ UNCHANGED ovars
  /\ UNCHANGED rvars

ConvLoopItem ==
  /\ cpc = "loop"
  /\ idx <= Len(Unwrap(ItemsArray(json_string)))
  /\ conv' = StepItem(conv, Unwrap(ItemsArray(json_string))[idx])
  /\ idx' = idx + 1
  /\ cpc' = IF conv'.ret.kind = "Pending" THEN "loop" ELSE "done"
  /\ UNCHANGED json_string
  /\ UNCHANGED ovars
  /\ UNCHANGED rvars

ConvFinish ==
  /\ cpc = "loop"
  /\ idx > Len(Unwrap(ItemsArray(json_string)))
  /\ conv' = FinalFlush(conv)
  /\ cpc' = "done"
  /\ UNCHANGED <<json_string, idx>>
  /\ UNCHANGED ovars
  /\ UNCHANGED rvars

\* ---- transcribe_audio, stepped
Return(r) == pc' = "done" /\ result' = r

\* lines 22-62: the media format is resolved first
ResolveMediaFormat ==
  /\ pc = "start"
  /\ IF MediaFormatOf(sniff, extension).kind = "Err"
     THEN Return(MediaFormatOf(sniff, extension))
     ELSE pc' = "language" /\ UNCHANGED result
  /\ UNCHANGED <<ivars, calls, poll_interval, job_details, stdout>>
  /\ UNCHANGED cvars
  /\ UNCHANGED rvars

\* lines 64-178: then the language code
ResolveLanguageCode ==
  /\ pc = "language"
  /\ IF LanguageCodeOf(language_code).kind = "Err"
     THEN Return(LanguageCodeOf(language_code))
     ELSE pc' = "submit" /\ UNCHANGED result
  /\ UNCHANGED <<ivars, calls, poll_interval, job_details, stdout>>
  /\ UNCHANGED cvars
  /\ UNCHANGED rvars

\* lines 180-196: start_transcription_job().send().await?
StartTranscriptionJobMutant ==
  /\ pc = "submit"
  /\ \E ok \in BOOLEAN :
       calls' = Append(calls, Call("start_transcription_job", 0, ok, NoJobOutput))
  /\ pc' = "first_read"
  /\ stdout' = Append(stdout, <<>>)
  /\ poll_interval' = InitialPollInterval
  /\ UNCHANGED <<ivars, job_details, result>>
  /\ UNCHANGED cvars
  /\ UNCHANGED rvars
StartTranscriptionJob ==
  /\ pc = "submit"
  /\ \E ok \in BOOLEAN :
       /\ calls' = Append(calls, Call("start_transcription_job", 0, ok, NoJobOutput))
       /\ IF ok
          THEN /\ pc' = "first_read"
               /\ stdout' = Append(stdout, <<>>)
               /\ poll_interval' = InitialPollInterval
               /\ UNCHANGED result
          ELSE /\ Return(Err(Str("start_transcription_job failed")))
               /\ UNCHANGED <<stdout, poll_interval>>
  /\ UNCHANGED <<ivars, job_details>>
  /\ UNCHANGED cvars
  /\ UNCHANGED rvars

\* the reads issued so far
Reads == SelectSeq(calls, LAMBDA c : c.op = "get_transcription_job")

\* the answers the service may give to the next read: the model stops the
\* service from answering IN_PROGRESS on read number MaxReads
Answers ==
  IF Len(Reads) + 1 < MaxReads THEN JobOutputs
  ELSE {o \in JobOutputs : StatusOf(o) # Some("IN_PROGRESS")}

\* lines 197-201: the first get_transcription_job().send().await?
FirstRead ==
  /\ pc = "first_read"
  /\ \/ /\ calls' = Append(calls, Call("get_transcription_job", 0, FALSE, NoJobOutput))
        /\ Return(Err(Str("get_transcription_job failed")))
        /\ UNCHANGED job_details
     \/ \E out \in Answers :
          /\ calls' = Append(calls, Call("get_transcription_job", 0, TRUE, out))
          /\ job_details' = out
          /\ pc' = "while"
          /\ UNCHANGED result
  /\ UNCHANGED <<ivars, poll_interval, stdout>>
  /\ UNCHANGED cvars
  /\ UNCHANGED rvars

\* lines 203-209, 219-227: the while-let condition and the match on status
WhileStatusMutant ==
  /\ pc = "while"
  /\ pc' = IF \/ KeepsPolling(StatusOf(job_details))
              \/ StatusOf(job_details) = Some("QUEUED") /\ Len(Reads) < MaxReads
           THEN "sleep" ELSE "classify"
  /\ UNCHANGED <<ivars, calls, poll_interval, job_details, stdout, result>>
  /\ UNCHANGED cvars
  /\ UNCHANGED rvars
WhileStatus ==
  /\ pc = "while"
  /\ pc' = IF KeepsPolling(StatusOf(job_details)) THEN "sleep" ELSE "classify"
  /\ UNCHANGED <<ivars, calls, poll_interval, job_details, stdout, result>>
  /\ UNCHANGED cvars
  /\ UNCHANGED rvars

\* line 210: sleep(poll_interval).await
Sleep ==
  /\ pc = "sleep"
  /\ calls' = Append(calls, Call("sleep", poll_interval, TRUE, NoJobOutput))
  /\ pc' = "reread"
  /\ UNCHANGED <<ivars, poll_interval, job_details, stdout, result>>
  /\ UNCHANGED cvars
  /\ UNCHANGED rvars

\* lines 211-217: the read inside the loop, then the doubling
ReReadResubmitMutant ==
  /\ pc = "reread"
  /\ \/ /\ calls' = Append(calls, Call("get_transcription_job", 0, FALSE, NoJobOutput))
        /\ IF Len(Reads) + 1 < MaxReads
           THEN pc' = "submit" /\ UNCHANGED result
           ELSE Return(Err(Str("get_transcription_job failed")))
        /\ UNCHANGED <<job_details, stdout, poll_interval>>
     \/ \E out \in Answers :
          /\ calls' = Append(calls, Call("get_transcription_job", 0, TRUE, out))
          /\ job_details' = out
          /\ stdout' = Append(stdout, <<>>)
          /\ poll_interval' = NextInterval(poll_interval)
          /\ pc' = "while"
          /\ UNCHANGED result
  /\ UNCHANGED ivars
  /\ UNCHANGED cvars
  /\ UNCHANGED rvars
ReReadMutant ==
  /\ pc = "reread"
  /\ \/ /\ calls' = Append(calls, Call("get_transcription_job", 0, FALSE, NoJobOutput))
        /\ pc' = IF Len(Reads) + 1 < MaxReads THEN "sleep" ELSE "classify"
        /\ UNCHANGED <<job_details, stdout, poll_interval, result>>
     \/ \E out \in Answers :
          /\ calls' = Append(calls, Call("get_transcription_job", 0, TRUE, out))
          /\ job_details' = out
          /\ stdout' = Append(stdout, <<>>)
          /\ poll_interval' = NextInterval(poll_interval)
          /\ pc' = "while"
          /\ UNCHANGED result
  /\ UNCHANGED ivars
  /\ UNCHANGED cvars
  /\ UNCHANGED rvars
ReRead ==
  /\ pc = "reread"
  /\ \/ /\ calls' = Append(calls, Call("get_transcription_job", 0, FALSE, NoJobOutput))
        /\ Return(Err(Str("get_transcription_job failed")))
        /\ UNCHANGED <<job_details, stdout, poll_interval>>
     \/ \E out \in Answers :
          /\ calls' = Append(calls, Call("get_transcription_job", 0, TRUE, out))
          /\ job_details' = out
          /\ stdout' = Append(stdout, <<>>)
          /\ poll_interval' = NextInterval(poll_interval)
          /\ pc' = "while"
          /\ UNCHANGED result
  /\ UNCHANGED ivars
  /\ UNCHANGED cvars
  /\ UNCHANGED rvars

\* lines 229-261: the final match, up to the fetch
ClassifyOutcome ==
  /\ pc = "classify"
  /\ stdout' = stdout \o ClassifyPrint(job_details)
  /\ IF Classify(job_details).kind = "Pending"
     THEN pc' = "fetch" /\ UNCHANGED result
     ELSE Return(Classify(job_details))
  /\ UNCHANGED <<ivars, calls, poll_interval, job_details>>
  /\ UNCHANGED cvars
  /\ UNCHANGED rvars

\* lines 241-242: reqwest::get(transcript_uri).await? and res.text().await?
FetchTranscript ==
  /\ pc = "fetch"
  /\ \/ /\ calls' = Append(calls, Call("fetch", 0, FALSE, NoJobOutput))
        /\ Return(Err(Str("fetching the transcript failed")))
        /\ UNCHANGED <<json_string, cpc, idx, conv>>
     \/ \E body \in Bodies :
          /\ calls' = Append(calls, Call("fetch", 0, TRUE, NoJobOutput))
          /\ json_string' = body
          /\ cpc' = "parse"
          /\ idx' = 1
          /\ conv' = LoopInit
          /\ pc' = "convert"
          /\ UNCHANGED result
  /\ UNCHANGED <<ivars, poll_interval, job_details, stdout>>
  /\ UNCHANGED rvars

\* lines 243-244: let final_transcript = convert_transcribe_json(&body)?; Ok(..)
ConvertReturnMutant ==
  /\ pc = "convert"
  /\ cpc = "done"
  /\ Return(IF conv.ret.kind = "Err"
            THEN Ok(Str("Transcript could not be read.")) ELSE conv.ret)
  /\ UNCHANGED <<ivars, calls, poll_interval, job_details, stdout>>
  /\ UNCHANGED cvars
  /\ UNCHANGED rvars
ConvertReturn ==
  /\ pc = "convert"
  /\ cpc = "done"
  /\ Return(conv.ret)
  /\ UNCHANGED <<ivars, calls, poll_interval, job_details, stdout>>
  /\ UNCHANGED cvars
  /\ UNCHANGED rvars

\* ---- specifications
IdleConvert ==
  /\ json_string = NoBody
  /\ cpc = "idle"
  /\ idx = 1
  /\ conv = LoopInit
  /\ run = 1
  /\ first_ret = Pending

IdleOrchestrator ==
  /\ language_code = "en-US"
  /\ sniff = Ok(None)
  /\ extension = None
  /\ pc = "idle"
  /\ calls = <<>>
  /\ poll_interval = 0
  /\ job_details = NoJobOutput
  /\ stdout = <<>>
  /\ result = Pending

\* one call of convert_transcribe_json on any payload
InitConvert ==
  /\ json_string \in Payloads
  /\ cpc = "parse"
  /\ idx = 1
  /\ conv = LoopInit
  /\ run = 1
  /\ first_ret = Pending
  /\ IdleOrchestrator

NextConvert == ConvParse \/ ConvIterBegin \/ ConvLoopItem \/ ConvFinish

SpecConvert == InitConvert /\ [][NextConvert]_vars

\* convert_transcribe_json called a second time on the same json_string: the
\* call starts at line 265 again, with whatever the first call left behind
ConvRerun ==
  /\ cpc = "done"
  /\ run = 1
  /\ run' = 2
  /\ first_ret' = conv.ret
  /\ cpc' = "parse"
  /\ idx' = 1
  /\ UNCHANGED <<json_string, conv>>
  /\ UNCHANGED ovars

NextRerun == NextConvert \/ ConvRerun

SpecRerun == InitConvert /\ [][NextRerun]_vars

\* one call of transcribe_audio
Init ==
  /\ language_code \in LanguageInputs
  /\ sniff \in SniffInputs
  /\ extension \in ExtensionInputs
  /\ pc = "start"
  /\ calls = <<>>
  /\ poll_interval = 0
  /\ job_details = NoJobOutput
  /\ stdout = <<>>
  /\ result = Pending
  /\ IdleConvert

Next ==
  \/ ResolveMediaFormat
  \/ ResolveLanguageCode
  \/ StartTranscriptionJob
  \/ FirstRead
  \/ WhileStatus
  \/ Sleep
  \/ ReRead
  \/ ClassifyOutcome
  \/ FetchTranscript
  \/ ConvertReturn
  \/ ConvParse
  \/ ConvIterBegin
  \/ ConvLoopItem
  \/ ConvFinish

Spec == Init /\ [][Next]_vars

\* the one task of an invocation is always resumed: every call it awaits is
\* answered (the answer may be an error) and every sleep ends
\* (taken for one input that passes both input checks)
InitFair ==
  /\ Init
  /\ language_code = "en-US"
  /\ sniff = Ok(Some("audio/mpeg"))
  /\ extension = Some("mp3")

SpecFair == InitFair /\ [][Next]_vars /\ WF_vars(Next)

\* ======================================================= the checked claims
\* ---- vocabulary of the claims about transcribe_audio
IsRead(c) == c.op = "get_transcription_job"
IsSleep(c) == c.op = "sleep"
IsSubmit(c) == c.op = "start_transcription_job"
Sleeps == SelectSeq(calls, IsSleep)
Submits == SelectSeq(calls, IsSubmit)
AllReadsOk == \A i \in 1..Len(Reads) : Reads[i].ok
ReadStatus(c) == StatusOf(c.out)
Polled == pc \in {"classify", "fetch", "convert", "done"}
UnexpectedStatus(st) == st \notin {Some("IN_PROGRESS"), Some("COMPLETED"), Some("FAILED")}

\* r occurs in the string v
Carries(v, r) == \E i \in 1..Len(v) : i + Len(r) - 1 <= Len(v) /\ SubSeq(v, i, i + Len(r) - 1) = r

RECURSIVE Pow2(_)
Pow2(n) == IF n = 0 THEN 1 ELSE 2 * Pow2(n - 1)

\* every read but the last answered IN_PROGRESS, and the last answered st
InProgressThen(st) ==
  /\ Len(Reads) >= 1
  /\ AllReadsOk
  /\ \A i \in 1..(Len(Reads) - 1) : ReadStatus(Reads[i]) = Some("IN_PROGRESS")
  /\ ReadStatus(Reads[Len(Reads)]) = st

\* C1 (as claimed): when zero or more IN_PROGRESS reads are followed by a FAILED
\* read whose job record carries a failure reason r, the returned result is
\* the job-failed outcome and carries r.
C1_FailedResultCarriesReason ==
  (pc = "done" /\ InProgressThen(Some("FAILED"))
     /\ IsSome(FailureReasonOf(Reads[Len(Reads)].out)))
  => (result.kind = "Ok" /\ Carries(result.val, Unwrap(FailureReasonOf(Reads[Len(Reads)].out))))

\* ---- vocabulary of the claims about convert_transcribe_json
HasArray == json_string.valid_json /\ IsSome(json_string.items)
PayloadItems == Unwrap(json_string.items)
IsPron(it) == it.type = Some("pronunciation")
IsPunct(it) == it.type = Some("punctuation")
Typed(it) == IsSome(it.type)
AllTyped == \A i \in 1..Len(PayloadItems) : Typed(PayloadItems[i])
Defective(it) ==
  \/ IsPron(it) /\ (~IsSome(it.speaker_label) \/ ~IsSome(it.content))
  \/ IsPunct(it) /\ ~IsSome(it.content)
Malformed == ~HasArray \/ ~AllTyped
WellFormed ==
  HasArray /\ AllTyped /\ \A i \in 1..Len(PayloadItems) : ~Defective(PayloadItems[i])

\* C2 (as claimed): a payload that is not JSON, has no array at results.items
\* or has an item without a string type ends in a returned error, never in a
\* panic and never in a transcript.
C2_MalformedIsParseError ==
  (cpc = "done" /\ pc = "idle" /\ Malformed) => conv.ret.kind = "Err"

\* C3: in a stream of typed items, a pronunciation item without a speaker
\* label, or a pronunciation or punctuation item without content, at any
\* position makes the function return an error and no transcript; and in any
\* stream at all such an item is never skipped into a returned transcript.
C3_MissingFieldIsFatal ==
  (cpc = "done" /\ HasArray /\ \E i \in 1..Len(PayloadItems) : Defective(PayloadItems[i]))
  => /\ conv.ret.kind # "Ok"
     /\ AllTyped => (conv.ret.kind = "Err" /\ conv.ret.val # conv.final_transcript)

C3_Witness ==
  /\ cpc = "done" /\ pc = "idle" /\ HasArray /\ Len(PayloadItems) = 3
  /\ IsPron(PayloadItems[1]) /\ ~Defective(PayloadItems[1])
  /\ IsPron(PayloadItems[2]) /\ ~IsSome(PayloadItems[2].speaker_label)
  /\ IsSome(PayloadItems[2].content)
  /\ IsPunct(PayloadItems[3]) /\ ~Defective(PayloadItems[3])
  /\ conv.ret = Err(Str("Missing speaker_label data"))

\* C4: no sleep precedes the first read, every sleep is followed by one read,
\* the k-th sleep lasts 5 * 2^(k-1) seconds, and when n IN_PROGRESS reads were
\* followed by a read with any other status the run made n+1 reads, n sleeps
\* (the polling is over, every read was answered: the last read is the only
\* one that is not IN_PROGRESS, and there is one sleep fewer than reads).
C4_BackoffSchedule ==
  /\ \A i \in 1..Len(calls) :
       IsSleep(calls[i]) =>
         /\ i > 1 /\ IsRead(calls[i - 1]) /\ calls[i - 1].ok
         /\ ReadStatus(calls[i - 1]) = Some("IN_PROGRESS")
         /\ i < Len(calls) => IsRead(calls[i + 1])
  /\ \A k \in 1..Len(Sleeps) : Sleeps[k].secs = InitialPollInterval * Pow2(k - 1)
  /\ (Polled /\ Len(Reads) >= 1 /\ AllReadsOk) =>
       /\ ReadStatus(Reads[Len(Reads)]) # Some("IN_PROGRESS")
       /\ \A i \in 1..(Len(Reads) - 1) : ReadStatus(Reads[i]) = Some("IN_PROGRESS")
       /\ Len(Sleeps) = Len(Reads) - 1
       /\ Len(Reads) = 1 + Cardinality({i \in 1..Len(Reads) :
                                          ReadStatus(Reads[i]) = Some("IN_PROGRESS")})

C4_Witness ==
  /\ pc = "done" /\ InProgressThen(Some("COMPLETED"))
  /\ Len(Reads) = 4
  /\ [k \in 1..Len(Sleeps) |-> Sleeps[k].secs] = <<5, 10, 20>>

\* ---- the runs of a token stream, defined from the stream alone
Tokens(its) == SelectSeq(its, LAMBDA t : IsPron(t) \/ IsPunct(t))
MaxOf(S) == CHOOSE x \in S : \A y \in S : y <= x
MinOf(S) == CHOOSE x \in S : \A y \in S : x <= y
PrevWord(toks, i) ==
  LET before == {j \in 1..(i - 1) : IsPron(toks[j])}
  IN IF before = {} THEN 0 ELSE MaxOf(before)
\* token i is the first Word of a maximal same-speaker run
StartsRun(toks, i) ==
  /\ IsPron(toks[i])
  /\ \/ PrevWord(toks, i) = 0
     \/ toks[PrevWord(toks, i)].speaker_label # toks[i].speaker_label
RunStarts(toks) == {i \in 1..Len(toks) : StartsRun(toks, i)}
RunEnd(toks, i) ==
  LET later == {j \in RunStarts(toks) : j > i}
  IN IF later = {} THEN Len(toks) ELSE MinOf(later) - 1
\* tokens from..to of a run after its first word: a word is preceded by one
\* space, punctuation is attached with none
RECURSIVE Glue(_, _, _)
Glue(toks, from, to) ==
  IF from > to THEN <<>>
  ELSE (IF IsPron(toks[from]) THEN <<" ">> ELSE <<>>)
       \o Unwrap(toks[from].content) \o Glue(toks, from + 1, to)
RunText(toks, i) == Unwrap(toks[i].content) \o Glue(toks, i + 1, RunEnd(toks, i))
RECURSIVE Ascending(_)
Ascending(S) == IF S = {} THEN <<>> ELSE <<MinOf(S)>> \o Ascending(S \ {MinOf(S)})
\* the runs whose text is not empty, in document order
NonEmptyRuns(toks) == Ascending({i \in RunStarts(toks) : RunText(toks, i) # <<>>})
Returned == cpc = "done" /\ pc = "idle" /\ WellFormed /\ conv.ret.kind = "Ok"
EmittedTexts == [k \in 1..Len(conv.emitted) |-> conv.emitted[k].text]

\* C5 (as claimed): for a well-formed payload the number of output lines is
\* the number of maximal same-speaker runs of Word tokens.
C5_LinesEqualRuns ==
  Returned => Len(conv.emitted) = Cardinality(RunStarts(Tokens(PayloadItems)))

\* C5 (amended): the number of output lines is the number of maximal
\* same-speaker runs of Word tokens whose accumulated text is not empty.
C5_LinesEqualNonEmptyRuns ==
  Returned => Len(conv.emitted) = Len(NonEmptyRuns(Tokens(PayloadItems)))

C5_Witness ==
  /\ Returned
  /\ Len(conv.emitted) = 2
  /\ Cardinality(RunStarts(Tokens(PayloadItems))) = 3
  /\ Len(NonEmptyRuns(Tokens(PayloadItems))) = 2

\* C6 (as claimed): the line texts are, in order, the texts of the runs: the
\* run's words (its first word included) separated by exactly one space, with
\* each punctuation token attached directly after what precedes it.
C6_TextsAreRunTexts ==
  Returned =>
    EmittedTexts = [k \in 1..Len(NonEmptyRuns(Tokens(PayloadItems))) |->
                      RunText(Tokens(PayloadItems), NonEmptyRuns(Tokens(PayloadItems))[k])]

\* C6 (amended): the line texts are, in order, the texts of the runs with
\* leading and trailing whitespace removed.
C6_TextsAreTrimmedRunTexts ==
  Returned =>
    EmittedTexts = [k \in 1..Len(NonEmptyRuns(Tokens(PayloadItems))) |->
                      Trim(RunText(Tokens(PayloadItems), NonEmptyRuns(Tokens(PayloadItems))[k]))]

C6_Witness ==
  /\ Returned
  /\ Len(PayloadItems) = 3
  /\ PayloadItems[1].content = Some(<<"a">>) /\ PayloadItems[1].speaker_label = Some(<<"A">>)
  /\ IsPunct(PayloadItems[2]) /\ PayloadItems[2].content = Some(<<".">>)
  /\ PayloadItems[3].content = Some(<<"a">>) /\ PayloadItems[3].speaker_label = Some(<<"B">>)
  /\ EmittedTexts = << <<"a", ".">>, <<"a">> >>
  /\ conv.ret.val = <<"A", ":", " ", "a", ".", "\n", "B", ":", " ", "a", "\n">>

\* ---- the inputs of transcribe_audio, judged from the inputs alone
KnownMimeTypes ==
  {"audio/amr", "audio/flac", "audio/m4a", "audio/mpeg", "audio/mp4", "video/mp4",
   "audio/ogg", "audio/opus", "audio/wav", "audio/webm"}
FormatResolvable ==
  /\ sniff.kind = "Ok"
  /\ \/ IsSome(sniff.val) /\ Unwrap(sniff.val) \in KnownMimeTypes
     \/ extension = Some("mp3")
LanguageSupported == language_code \in SupportedLanguageCodes

\* C7: with an unsupported language code or an unresolvable media format no
\* call at all leaves transcribe_audio, and it returns an error.
C7_InputErrorBeforeAnyCall ==
  (pc # "idle" /\ (~LanguageSupported \/ ~FormatResolvable))
  => /\ calls = <<>>
     /\ pc = "done" => result.kind = "Err"
     /\ pc \in {"start", "language", "done"}

C7_Witness ==
  /\ pc = "done" /\ language_code = "xx-YY" /\ FormatResolvable
  /\ result = Err(Str("Unsupported language code"))
  /\ calls = <<>>

\* C8: a read that answers with no status or with a status other than
\* IN_PROGRESS, COMPLETED, FAILED is the last call of the run, and the run
\* returns Ok with the unexpected-status message, which no other outcome uses.
C8_UnexpectedStatusIsTerminal ==
  /\ \A i \in 1..Len(calls) :
       (IsRead(calls[i]) /\ calls[i].ok /\ UnexpectedStatus(ReadStatus(calls[i])))
       => /\ i = Len(calls)
          /\ pc \in {"while", "classify", "done"}
          /\ pc = "done" => result = Ok(UnexpectedStatusMessage)
  /\ (pc = "done" /\ result = Ok(UnexpectedStatusMessage))
       => (Len(Reads) >= 1 /\ AllReadsOk /\ UnexpectedStatus(ReadStatus(Reads[Len(Reads)])))

C8_Witness ==
  /\ pc = "done" /\ Len(Reads) = 3 /\ Len(Sleeps) = 2
  /\ InProgressThen(Some("QUEUED"))
  /\ result = Ok(UnexpectedStatusMessage)

\* C9: a failed status read is the last call of the run and the run has
\* returned an error; a successful read that reports FAILED ends in Ok.
C9_ReadFailureIsFatal ==
  /\ \A i \in 1..Len(calls) :
       (IsRead(calls[i]) /\ ~calls[i].ok)
       => (i = Len(calls) /\ pc = "done" /\ result.kind = "Err")
  /\ (pc = "done" /\ Len(Reads) >= 1 /\ AllReadsOk
        /\ ReadStatus(Reads[Len(Reads)]) = Some("FAILED"))
       => result.kind = "Ok"

C9_Witness ==
  /\ pc = "done" /\ Len(Reads) = 2 /\ Len(Sleeps) = 1
  /\ Reads[1].ok /\ ~Reads[2].ok
  /\ calls[Len(calls)] = Reads[2]
  /\ result.kind = "Err"

\* C10: a failed submission is the only call of the run, and the run has
\* returned an error.
C10_SubmitFailureIsFatal ==
  /\ Len(Submits) <= 1
  /\ \A i \in 1..Len(calls) :
       (IsSubmit(calls[i]) /\ ~calls[i].ok)
       => (Len(calls) = 1 /\ pc = "done" /\ result.kind = "Err")

C10_Witness ==
  /\ pc = "done" /\ Len(calls) = 1 /\ IsSubmit(calls[1]) /\ ~calls[1].ok
  /\ result.kind = "Err"

\* ---- further vocabulary of the claims about transcribe_audio
IsFetch(c) == c.op = "fetch"
Fetches == SelectSeq(calls, IsFetch)
LastRead == Reads[Len(Reads)]
\* the polling ended on a read that was answered
Answered == Len(Reads) >= 1 /\ AllReadsOk
CompletedWithoutUri ==
  /\ Answered
  /\ ReadStatus(LastRead) = Some("COMPLETED")
  /\ ~IsSome(TranscriptUriOf(LastRead.out))

\* C11: when the last read is COMPLETED with no transcript URI, nothing is
\* fetched, convert_transcribe_json is never entered, and the run returns Ok
\* with the missing-URI message (it neither fails nor panics).
C11_MissingUriIsReported ==
  CompletedWithoutUri =>
    /\ Fetches = <<>>
    /\ cpc = "idle"
    /\ pc \in {"while", "classify", "done"}
    /\ pc = "done" => /\ result = Ok(MissingUriMessage)
                      /\ result.val \notin {JobFailedMessage, UnexpectedStatusMessage}
                      /\ stdout[Len(stdout)] = MissingUriMessage

C11_Witness ==
  /\ pc = "done" /\ CompletedWithoutUri
  /\ Len(Reads) = 2 /\ ReadStatus(Reads[1]) = Some("IN_PROGRESS")
  /\ result = Ok(MissingUriMessage)
  /\ calls[Len(calls)] = LastRead

\* a read was failed, or answered with anything other than IN_PROGRESS
PollingOver ==
  /\ Len(Reads) >= 1
  /\ ~LastRead.ok \/ ReadStatus(LastRead) # Some("IN_PROGRESS")

\* C12: once the submission has succeeded the invocation ends (it returns, or
\* unwinds in a panic of the converter), and after the first read that failed
\* or was answered with anything other than IN_PROGRESS no read and no sleep
\* is issued any more.
C12_PollingEnds ==
  /\ (pc = "first_read") ~> (pc = "done")
  /\ [][PollingOver => (Reads' = Reads /\ Sleeps' = Sleeps)]_vars

C12_Witness ==
  /\ pc = "done" /\ Len(Reads) = 3 /\ Len(Sleeps) = 2
  /\ InProgressThen(None)
  /\ IsSome(LastRead.out.transcription_job)
  /\ calls[Len(calls)] = LastRead
  /\ result.kind = "Ok"

\* ---- further vocabulary of the claims about convert_transcribe_json
ConvertDone == cpc = "done" /\ pc = "idle"

\* C13: JSON whose results.items is an empty array is converted to Ok("").
C13_EmptyListIsEmptyString ==
  (ConvertDone /\ HasArray /\ PayloadItems = <<>>)
  => (conv.ret = Ok(<<>>) /\ conv.emitted = <<>>)

C13_Witness ==
  /\ ConvertDone /\ HasArray /\ PayloadItems = <<>>
  /\ idx = 1
  /\ conv.ret = Ok(<<>>)

\* C14: a stream of well-formed punctuation items only (at least one) is
\* converted to Ok(""): no error, and no line, since no speaker was set; so
\* a transcript that is not empty always comes from a stream with a Word.
C14_OrphanPunctuationIsDropped ==
  /\ (ConvertDone /\ WellFormed /\ PayloadItems # <<>>
        /\ \A i \in 1..Len(PayloadItems) : IsPunct(PayloadItems[i]))
     => /\ conv.ret = Ok(<<>>)
        /\ conv.emitted = <<>>
        /\ conv.current_speaker = None
  /\ (ConvertDone /\ WellFormed /\ conv.ret.kind = "Ok" /\ conv.ret.val # <<>>)
     => \E i \in 1..Len(PayloadItems) : IsPron(PayloadItems[i])

C14_Witness ==
  /\ ConvertDone /\ WellFormed /\ Len(PayloadItems) = 2
  /\ \A i \in 1..2 : IsPunct(PayloadItems[i]) /\ PayloadItems[i].content = Some(<<".">>)
  /\ conv.current_text = <<".", ".">>
  /\ conv.ret = Ok(<<>>)

C16_QueuedKeepsPolling ==
  (Answered /\ ReadStatus(LastRead) = Some("QUEUED"))
  => pc \in {"while", "sleep", "reread"}

\* C17: the log of calls is the submission, the only write, followed by reads
\* alone: a first status read, then one status read after each sleep, then at
\* most one fetch of the transcript.
C17_OneWriteThenReads ==
  /\ Len(Submits) <= 1
  /\ calls # <<>> => IsSubmit(calls[1])
  /\ \A i \in 2..Len(calls) :
       /\ IsRead(calls[i]) \/ IsSleep(calls[i]) \/ IsFetch(calls[i])
       /\ calls[1].ok
  /\ Len(calls) >= 2 => IsRead(calls[2])
  /\ \A i \in 1..Len(calls) :
       /\ (IsSleep(calls[i]) /\ i < Len(calls)) => IsRead(calls[i + 1])
       /\ (IsSleep(calls[i]) /\ i = Len(calls)) => pc = "reread"
       /\ (IsRead(calls[i]) /\ i > 2) => IsSleep(calls[i - 1])
       /\ IsFetch(calls[i]) => (i = Len(calls) /\ IsRead(calls[i - 1]))
  /\ Len(Reads) <= Len(Sleeps) + 1

C17_Witness ==
  /\ pc = "done"
  /\ [i \in 1..Len(calls) |-> calls[i].op] =
       <<"start_transcription_job", "get_transcription_job", "sleep",
         "get_transcription_job", "sleep", "get_transcription_job", "fetch">>
  /\ result.kind = "Ok"

\* an item with a type that is neither "pronunciation" nor "punctuation"
IsOther(it) == Typed(it) /\ ~IsPron(it) /\ ~IsPunct(it)
WithoutOther(p) ==
  [p EXCEPT !.items = Some(SelectSeq(Unwrap(p.items), LAMBDA it : ~IsOther(it)))]

\* C18: the iteration over an item of another kind changes nothing of the
\* loop's state (final_transcript, current_speaker, current_text, the lines
\* emitted, no error), and the result of a run is the result the function
\* gives for the stream without the items of another kind.
C18_OtherKindsAreIgnored ==
  /\ [][(cpc = "loop" /\ idx <= Len(PayloadItems) /\ IsOther(PayloadItems[idx]))
          => (conv' = conv /\ idx' = idx + 1 /\ cpc' = "loop")]_vars
  /\ []((cpc = "done" /\ HasArray)
          => conv.ret = convert_transcribe_json(WithoutOther(json_string)))

C18_Witness ==
  /\ ConvertDone /\ HasArray /\ Len(PayloadItems) = 3
  /\ PayloadItems[1].content = Some(<<"a">>) /\ PayloadItems[1].speaker_label = Some(<<"A">>)
  /\ IsOther(PayloadItems[2])
  /\ IsPunct(PayloadItems[3]) /\ PayloadItems[3].content = Some(<<".">>)
  /\ conv.ret = Ok(<<"A", ":", " ", "a", ".", "\n">>)

\* the rendering of the runs, written out from the stream alone
RECURSIVE Concat(_)
Concat(ss) == IF ss = <<>> THEN <<>> ELSE Head(ss) \o Concat(Tail(ss))
RunLabel(toks, i) == Unwrap(toks[i].speaker_label)
ExpectedLines(toks) ==
  [k \in 1..Len(NonEmptyRuns(toks)) |->
     [speaker |-> RunLabel(toks, NonEmptyRuns(toks)[k]),
      text |-> Trim(RunText(toks, NonEmptyRuns(toks)[k]))]]
Rendered(lines) ==
  Concat([k \in 1..Len(lines) |->
            lines[k].speaker \o <<":", " ">> \o lines[k].text \o <<"\n">>])

\* C19 (as claimed): the transcript is the concatenation of "<label>: <text>"
\* plus newline over the runs with non-empty text, text being the trimmed run
\* text, and no emitted line has an empty <text>.
C19_LinesRenderedNoneEmpty ==
  Returned =>
    /\ conv.ret.val = Rendered(ExpectedLines(Tokens(PayloadItems)))
    /\ conv.emitted = ExpectedLines(Tokens(PayloadItems))
    /\ \A k \in 1..Len(conv.emitted) : conv.emitted[k].text # <<>>

\* C19 (amended): the same rendering; a line is emitted for every run whose
\* text is not empty before trimming, so its trimmed <text> is empty exactly
\* when the run's text is whitespace only.
C19_LinesRendered ==
  Returned =>
    /\ conv.ret.val = Rendered(ExpectedLines(Tokens(PayloadItems)))
    /\ conv.emitted = ExpectedLines(Tokens(PayloadItems))
    /\ \A k \in 1..Len(conv.emitted) :
         conv.emitted[k].text = <<>>
         <=> \A j \in 1..Len(RunText(Tokens(PayloadItems), NonEmptyRuns(Tokens(PayloadItems))[k])) :
               RunText(Tokens(PayloadItems), NonEmptyRuns(Tokens(PayloadItems))[k])[j] \in Whitespace

C19_Witness ==
  /\ Returned /\ Len(PayloadItems) = 3
  /\ PayloadItems[1].content = Some(<<" ">>) /\ PayloadItems[1].speaker_label = Some(<<"A">>)
  /\ PayloadItems[2].content = Some(<<"a">>) /\ PayloadItems[2].speaker_label = Some(<<"B">>)
  /\ IsPunct(PayloadItems[3]) /\ PayloadItems[3].content = Some(<<".">>)
  /\ conv.ret.val = <<"A", ":", " ", "\n", "B", ":", " ", "a", ".", "\n">>

\* the punctuation items (with content) that no Word item precedes
LeadingPunct(its, i) ==
  /\ IsPunct(its[i]) /\ IsSome(its[i].content)
  /\ \A j \in 1..(i - 1) : ~IsPron(its[j])
RECURSIVE DropLeading(_, _)
DropLeading(its, i) ==
  IF i > Len(its) THEN <<>>
  ELSE (IF LeadingPunct(its, i) THEN <<>> ELSE <<its[i]>>) \o DropLeading(its, i + 1)
WithoutLeadingPunct(p) == [p EXCEPT !.items = Some(DropLeading(Unwrap(p.items), 1))]

\* C20: the first Word of the stream replaces current_text, whatever
\* punctuation was accumulated before it, and the result of a run is the result
\* the function gives for the stream without the punctuation before the first
\* Word.
C20_LeadingPunctuationIsLost ==
  /\ [][(cpc = "loop" /\ idx <= Len(PayloadItems) /\ conv.current_speaker = None
           /\ IsPron(PayloadItems[idx]) /\ ~Defective(PayloadItems[idx]))
          => conv'.current_text = Unwrap(PayloadItems[idx].content)]_vars
  /\ []((cpc = "done" /\ HasArray)
          => conv.ret = convert_transcribe_json(WithoutLeadingPunct(json_string)))

C20_Witness ==
  /\ ConvertDone /\ HasArray /\ Len(PayloadItems) = 3
  /\ IsPunct(PayloadItems[1]) /\ PayloadItems[1].content = Some(<<".">>)
  /\ PayloadItems[2].content = Some(<<"a">>) /\ PayloadItems[2].speaker_label = Some(<<"A">>)
  /\ IsPunct(PayloadItems[3]) /\ PayloadItems[3].content = Some(<<".">>)
  /\ conv.ret = Ok(<<"A", ":", " ", "a", ".", "\n">>)

\* ---- C21: the speaker labels of adjacent lines
\* the starts of the runs that lie strictly between two run starts
RunsBetween(toks, i, j) == {r \in RunStarts(toks) : i < r /\ r < j}
EmittedSpeakers == [k \in 1..Len(conv.emitted) |-> conv.emitted[k].speaker]

\* C21 (as claimed): in every returned transcript two consecutive lines never
\* carry the same speaker label.
C21_AdjacentLinesDiffer ==
  (cpc = "done" /\ HasArray /\ conv.ret.kind = "Ok") =>
    \A k \in 1..(Len(conv.emitted) - 1) :
      conv.emitted[k].speaker # conv.emitted[k + 1].speaker

\* C21 (amended): the k-th line carries the label of the k-th run with
\* non-empty text; two consecutive lines that come from adjacent runs carry
\* different labels, and two consecutive lines carry the same label only when
\* runs of empty text, which emit no line, lie between their runs.
C21_AdjacentLinesDifferUnlessEmptyRunBetween ==
  (cpc = "done" /\ HasArray /\ conv.ret.kind = "Ok") =>
    LET toks == Tokens(PayloadItems)
        runs == NonEmptyRuns(toks)
    IN /\ WellFormed
       /\ Len(conv.emitted) = Len(runs)
       /\ EmittedSpeakers = [k \in 1..Len(runs) |-> RunLabel(toks, runs[k])]
       /\ \A k \in 1..(Len(runs) - 1) :
            /\ RunsBetween(toks, runs[k], runs[k + 1]) = {}
                 => conv.emitted[k].speaker # conv.emitted[k + 1].speaker
            /\ conv.emitted[k].speaker = conv.emitted[k + 1].speaker
                 => /\ RunsBetween(toks, runs[k], runs[k + 1]) # {}
                    /\ \A r \in RunsBetween(toks, runs[k], runs[k + 1]) :
                         RunText(toks, r) = <<>>

C21_Witness ==
  /\ ConvertDone /\ HasArray /\ Len(PayloadItems) = 3
  /\ PayloadItems[1].content = Some(<<"a">>) /\ PayloadItems[1].speaker_label = Some(<<"A">>)
  /\ IsPron(PayloadItems[2])
  /\ PayloadItems[2].content = Some(<<>>) /\ PayloadItems[2].speaker_label = Some(<<"B">>)
  /\ PayloadItems[3].content = Some(<<"a">>) /\ PayloadItems[3].speaker_label = Some(<<"A">>)
  /\ conv.ret = Ok(<<"A", ":", " ", "a", "\n", "A", ":", " ", "a", "\n">>)
  /\ EmittedSpeakers = << <<"A">>, <<"A">> >>

\* ---- C22: the fetch of the result and the run of the reconstructor
DescriptiveMessages == {MissingUriMessage, JobFailedMessage, UnexpectedStatusMessage}
CompletedWithUri ==
  /\ Answered
  /\ ReadStatus(LastRead) = Some("COMPLETED")
  /\ IsSome(TranscriptUriOf(LastRead.out))

\* C22: the transcript is fetched at most once, as the last call and only
\* after the last read was answered COMPLETED with a transcript URI;
\* convert_transcribe_json is entered at most once, only from a successful
\* fetch; after a read that failed, or was answered FAILED, with another
\* status or with none, nothing is fetched and the converter stays idle; a
\* failed fetch ends the invocation in an error without entering the
\* converter, and the invocation ends in exactly what the converter ended in,
\* so a converter error is returned as that error and never as a string.
C22_FetchOnceAfterCompleted ==
  /\ [](/\ Len(Fetches) <= 1
        /\ Fetches # <<>> => (CompletedWithUri /\ IsFetch(calls[Len(calls)]))
        /\ cpc # "idle" => (Len(Fetches) = 1 /\ Fetches[1].ok)
        /\ (Len(Reads) >= 1 /\ ~CompletedWithUri) => (Fetches = <<>> /\ cpc = "idle")
        /\ (Fetches # <<>> /\ ~Fetches[1].ok)
             => (cpc = "idle" /\ pc = "done" /\ result.kind = "Err")
        /\ (pc = "done" /\ cpc # "idle")
             => /\ cpc = "done" /\ result = conv.ret
                /\ conv.ret.kind = "Err"
                     => (result.kind = "Err" /\ result.val \notin DescriptiveMessages)
                /\ conv.ret.kind # "Ok" => result.kind # "Ok")
  /\ [][(cpc' # cpc /\ cpc' = "parse") => (cpc = "idle" /\ pc = "fetch")]_vars
  /\ [][cpc # "idle" => cpc' # "idle"]_vars
  /\ [][Len(Fetches) = 1 => Fetches' = Fetches]_vars

C22_Witness ==
  /\ pc = "done" /\ CompletedWithUri
  /\ Len(Reads) = 2 /\ ReadStatus(Reads[1]) = Some("IN_PROGRESS")
  /\ Len(Fetches) = 1 /\ Fetches[1].ok
  /\ cpc = "done" /\ json_string.items = Some(<<WordA, WordNoSpeaker>>)
  /\ conv.ret = Err(Str("Missing speaker_label data"))
  /\ result = conv.ret
====
